---- MODULE Spec2Model ----
(***************************************************************************)
(* A model of the `sc` crate (src/src/lib.rs: Sc, Dropper, Locker,         *)
(* Wrapper) and of the observer registry built on it                       *)
(* (src/examples/observer/src/main.rs: Visitable).                         *)
(*                                                                         *)
(* An Option<X> is a sequence of length at most one: None is <<>> and      *)
(* Some(x) is <<x>>.  A pointer `*const T` is the identity of the value it *)
(* points to; whether the pointee still exists is the variable `alive`.    *)
(* Vec index i of the registry is cell i + 1 here.  Lockers have no        *)
(* identity beyond their fields, so the live ones are kept as a bag.       *)
(***************************************************************************)
EXTENDS Integers, Sequences, FiniteSets, Bags, TLC

\* ---------------------------------------------------------------- bounds
NCells == 3
NLockers == 2
NValues == 3
NWrappers == 1
NMsgs == 3
MaxNotify == 3

Cells == 1..NCells
PlainValues == 1..NValues
Wrappers == 1..NWrappers
Msgs == 1..NMsgs

\* Wrapper w owns the fields `locker` and `data`; its data is value WData(w).
WData(w) == NValues + w
Values == 1..(NValues + NWrappers)
IsWrapperData(v) == v > NValues
WrapperOf(v) == v - NValues

\* ---------------------------------------------------------------- Option
None == <<>>
Some(x) == <<x>>
OptionIsSome(o) == Len(o) = 1
OptionIsNone(o) == Len(o) = 0
Unwrap(o) == o[1]

\* The closures handed to Sc::map: |x| x and |x| x.clone() + "bar".
Fns == {"identity", "append_bar"}
Apply(f, x) == IF f = "identity" THEN x ELSE <<x, "bar">>

\* Option::map: f is invoked once on the content of a Some, never on a None.
OptionMap(o, f) == [i \in DOMAIN o |-> Apply(f, o[i])]

VARIABLES
    sc,      \* sc[c]: the Cell<Option<*const T>> of cell c
    lockers, \* the bag of the Lockers constructed and not yet dropped
    alive,   \* alive[v]: value v is constructed and its scope has not ended
    wstate,  \* wstate[w]: 0 no Wrapper, 1 constructed, 2 first field dropped
    wlocker, \* wlocker[w]: the field `locker` of Wrapper w
    logs,    \* logs[v]: Observer.logs of observer v
    notified,\* how many times add_log has run (capped by MaxNotify)
    cleared, \* history: what cell c referred to when it last became Empty
    last     \* the operation that led to this state, with its result

vars == <<sc, lockers, alive, wstate, wlocker, logs, notified, cleared, last>>

\* A Locker: sc is the field `sc`, None or Some(c) for Some(Dropper { sc: c });
\* val is the value it borrows for 'auto, None until it is borrowed.
\* Locker::new()
LockerNew == [sc |-> None, val |-> None]

\* A constructor that leaves a pointer in the cell.
ScNewBound == Some(1)

\* Sc::new(): Self { 0: Cell::new(None) }
ScNew == None

\* Visitable::new(size): size times observers.push(Sc::new()).
VisitableNew(size) == [c \in 1..size |-> ScNew]

Init ==
    /\ sc = VisitableNew(NCells)
    /\ lockers = EmptyBag
    /\ alive = [v \in Values |-> FALSE]
    /\ wstate = [w \in Wrappers |-> 0]
    /\ wlocker = [w \in Wrappers |-> LockerNew]
    /\ logs = [v \in Values |-> <<>>]
    /\ notified = 0
    /\ cleared = [c \in Cells |-> None]
    /\ last = [op |-> "init"]

\* ---------------------------------------------------------------- Sc
\* &*ptr. Reading through a pointer whose pointee is gone is undefined: the
\* build may read the stale value, another value, or fault (Fault, which is
\* no value).
Fault == 0
DerefOutcomes(p) == IF alive[p] THEN {p} ELSE Values \cup {Fault}

\* Sc::get: self.0.get().map(|ptr| &*ptr)
ScGetOutcomes(cells, c) ==
    IF OptionIsNone(cells[c]) THEN {None}
    ELSE {Some(r) : r \in DerefOutcomes(Unwrap(cells[c]))}

\* is_none written as a copy of is_some.
ScIsNoneAsIsSome(cells, c) == OptionIsSome(cells[c])

\* Sc::is_some and Sc::is_none
ScIsSome(cells, c) == OptionIsSome(cells[c])
ScIsNone(cells, c) == OptionIsNone(cells[c])

\* Sc::map(f): ret is the Option returned, calls the arguments f ran on.
ScMapOutcomes(cells, c, f) ==
    {[ret |-> OptionMap(got, f), calls |-> got] : got \in ScGetOutcomes(cells, c)}

\* ---------------------------------------------------------------- Dropper
\* A drop that forgets to clear the cell.
DropperDropKeeps(cells, c) == cells

\* A drop that clears every cell of the registry, not only its own.
DropperDropAll(cells, c) == [i \in DOMAIN cells |-> None]

\* Drop for Dropper: self.sc.0.set(None)
DropperDrop(cells, c) == [cells EXCEPT ![c] = None]

\* An Option<Dropper> that is let go without its drop being run.
DropOptDropperSkipped(cells, o) == cells

\* Dropping an Option<Dropper>: a None drops nothing.
DropOptDropper(cells, o) ==
    IF OptionIsNone(o) THEN cells ELSE DropperDrop(cells, Unwrap(o))

\* ---------------------------------------------------------------- Locker
\* A lock that rejects: it leaves a cell that is already Bound as it is.
LockCellsReject(cells, r, v, c) ==
    DropOptDropper(IF OptionIsSome(cells[c]) THEN cells
                   ELSE [cells EXCEPT ![c] = Some(v)], r.sc)

\* Locker::lock: sc.0.set(Some(ptr)); then self.sc = Some(Dropper { sc }),
\* an assignment that drops the Option<Dropper> the field held before.
LockCells(cells, r, v, c) ==
    DropOptDropper([cells EXCEPT ![c] = Some(v)], r.sc)
LockLocker(r, v, c) == [sc |-> Some(c), val |-> Some(v)]

\* The fields declared the other way round: struct Wrapper { data, locker }.
WrapperDropOrderDataFirst == <<"data", "locker">>

\* struct Wrapper { locker, data }: fields are dropped in declaration order.
WrapperDropOrder == <<"locker", "data">>

\* The field `locker` of Wrapper w exists until the Wrapper's drop reaches it.
WrapperLockerLive(w) ==
    \/ wstate[w] = 1
    \/ wstate[w] = 2 /\ WrapperDropOrder[1] # "locker"

\* Every Locker there is: the plain ones and the Wrappers' fields.
LiveLockers ==
    BagToSet(lockers) \cup {wlocker[w] : w \in {x \in Wrappers : WrapperLockerLive(x)}}

\* `val: &'auto T`: v is borrowed while a live plain Locker holds it.
Borrowed(v) == \E r \in BagToSet(lockers) : r.val = Some(v)

\* `&'auto mut self` borrows the Locker for its whole lifetime, so lock (or
\* register_observer) is called at most once on a Locker.
CanLock(r) == OptionIsNone(r.sc) /\ OptionIsNone(r.val)

\* let mut locker = Locker::new(); with at most cap plain Lockers at a time.
NewLocker(cap) ==
    /\ BagCardinality(lockers) < cap
    /\ lockers' = lockers (+) SetToBag({LockerNew})
    /\ last' = [op |-> "new_locker"]
    /\ UNCHANGED <<sc, alive, wstate, wlocker, logs, notified>>

\* A value (a String, an Observer) is constructed on the next free slot.
FreeValues == {v \in 1..NValues : ~alive[v]}
NewValue ==
    /\ FreeValues # {}
    /\ LET v == CHOOSE x \in FreeValues : \A y \in FreeValues : x <= y IN
        /\ alive' = [alive EXCEPT ![v] = TRUE]
        /\ last' = [op |-> "new_value", v |-> v]
    /\ UNCHANGED <<sc, lockers, wstate, wlocker, logs, notified>>

\* A plain Locker can borrow a value that is reachable: a plain value that is
\* alive, or (through Deref) the data of a constructed Wrapper that has not
\* locked itself.
CanBorrow(v) ==
    /\ alive[v]
    /\ IsWrapperData(v) =>
        /\ wstate[WrapperOf(v)] = 1
        /\ CanLock(wlocker[WrapperOf(v)])

\* locker.lock(&v, &sc) on a plain Locker r.
Lock(r, v, c) ==
    /\ r \in BagToSet(lockers)
    /\ CanLock(r)
    /\ CanBorrow(v)
    /\ sc' = LockCells(sc, r, v, c)
    /\ lockers' = (lockers (-) SetToBag({r})) (+) SetToBag({LockLocker(r, v, c)})
    /\ last' = [op |-> "lock", v |-> v, c |-> c]
    /\ UNCHANGED <<alive, wstate, wlocker, logs, notified>>

\* The plain Locker r leaves its scope: its field `sc` is dropped.
DropLocker(r) ==
    /\ r \in BagToSet(lockers)
    /\ sc' = DropOptDropper(sc, r.sc)
    /\ lockers' = lockers (-) SetToBag({r})
    /\ last' = [op |-> "drop_locker", c |-> r.sc, v |-> r.val]
    /\ UNCHANGED <<alive, wstate, wlocker, logs, notified>>

\* An unwinding that lets the Lockers go without running their drops.
UnwindCellsLeaks(cells, rs) == cells

\* The drops of the Lockers rs, one after the other.
RECURSIVE UnwindCells(_, _)
UnwindCells(cells, rs) ==
    IF rs = {} THEN cells
    ELSE LET r == CHOOSE x \in rs : TRUE IN
         UnwindCells(DropOptDropper(cells, r.sc), rs \ {r})

\* A failure propagates out of the scope of the plain Lockers: unwinding drops
\* every one of them. bound lists the cells that were Bound when it began.
Unwind ==
    /\ lockers # EmptyBag
    /\ sc' = UnwindCells(sc, BagToSet(lockers))
    /\ lockers' = EmptyBag
    /\ last' = [op |-> "unwind", n |-> BagCardinality(lockers),
                bound |-> {c \in Cells : sc[c] # None}]
    /\ UNCHANGED <<alive, wstate, wlocker, logs, notified>>

\* A plain value leaves its scope; `val: &'auto T` keeps it from doing so
\* while a Locker that borrowed it is alive.
DropValue(v) ==
    /\ v \in 1..NValues
    /\ alive[v]
    /\ ~Borrowed(v)
    /\ alive' = [alive EXCEPT ![v] = FALSE]
    /\ logs' = [logs EXCEPT ![v] = <<>>]
    /\ last' = [op |-> "drop_value", v |-> v]
    /\ UNCHANGED <<sc, lockers, wstate, wlocker, notified>>

\* sc.map(f), sc.is_some() and sc.is_none() on cell c.
Map(c, f) ==
    /\ \E out \in ScMapOutcomes(sc, c, f) :
        last' = [op |-> "map", c |-> c, f |-> f, ret |-> out.ret,
                 calls |-> out.calls,
                 is_some |-> ScIsSome(sc, c), is_none |-> ScIsNone(sc, c)]
    /\ UNCHANGED <<sc, lockers, alive, wstate, wlocker, logs, notified>>

\* ---------------------------------------------------------------- Wrapper
\* Wrapper::new(data)
WrapperNew(w) ==
    /\ wstate[w] = 0
    /\ wstate' = [wstate EXCEPT ![w] = 1]
    /\ wlocker' = [wlocker EXCEPT ![w] = LockerNew]
    /\ alive' = [alive EXCEPT ![WData(w)] = TRUE]
    /\ last' = [op |-> "wrapper_new", w |-> w]
    /\ UNCHANGED <<sc, lockers, logs, notified>>

\* Wrapper::lock(this, sc): this.locker.lock(&this.data, sc). `&'auto mut
\* Self` needs the Wrapper unborrowed.
WrapperLock(w, c) ==
    /\ wstate[w] = 1
    /\ CanLock(wlocker[w])
    /\ ~Borrowed(WData(w))
    /\ sc' = LockCells(sc, wlocker[w], WData(w), c)
    /\ wlocker' = [wlocker EXCEPT ![w] = LockLocker(@, WData(w), c)]
    /\ last' = [op |-> "wrapper_lock", w |-> w, v |-> WData(w), c |-> c]
    /\ UNCHANGED <<lockers, alive, wstate, logs, notified>>

\* The Wrapper leaves its scope: one step per field, in WrapperDropOrder.
\* It cannot leave while a plain Locker still borrows its data.
WrapperDropField(w) ==
    /\ wstate[w] \in {1, 2}
    /\ wstate[w] = 1 => ~Borrowed(WData(w))
    /\ LET field == WrapperDropOrder[wstate[w]] IN
        /\ IF field = "locker"
           THEN /\ sc' = DropOptDropper(sc, wlocker[w].sc)
                /\ wlocker' = [wlocker EXCEPT ![w] = LockerNew]
                /\ UNCHANGED <<alive, logs>>
           ELSE /\ alive' = [alive EXCEPT ![WData(w)] = FALSE]
                /\ logs' = [logs EXCEPT ![WData(w)] = <<>>]
                /\ UNCHANGED <<sc, wlocker>>
        /\ last' = [op |-> "wrapper_drop", w |-> w, field |-> field,
                    c |-> wlocker[w].sc, v |-> WData(w)]
    /\ wstate' = [wstate EXCEPT ![w] = IF @ = 1 THEN 2 ELSE 0]
    /\ UNCHANGED <<lockers, notified>>

\* ---------------------------------------------------------------- Visitable
\* Observer::notify: *value += log; *value += "\n "
ObserverNotify(lg, o, m) == [lg EXCEPT ![o] = Append(@, m)]

\* An add_log that stops at the first Empty cell instead of skipping it.
RECURSIVE AddLogFromStopsAtEmpty(_, _, _, _, _)
AddLogFromStopsAtEmpty(cells, i, lg, calls, m) ==
    IF i > NCells \/ OptionIsNone(cells[i]) THEN {[logs |-> lg, calls |-> calls]}
    ELSE AddLogFromStopsAtEmpty(cells, i + 1,
                                ObserverNotify(lg, Unwrap(cells[i]), m),
                                Append(calls, <<i, Unwrap(cells[i])>>), m)

\* Visitable::add_log from cell i on: observer.map(|o| o.notify(log)) on each
\* cell of self.observers in turn. calls lists <<cell, observer>> for each run
\* of the closure.
RECURSIVE AddLogFrom(_, _, _, _, _)
AddLogFrom(cells, i, lg, calls, m) ==
    IF i > NCells THEN {[logs |-> lg, calls |-> calls]}
    ELSE UNION {
        IF OptionIsNone(got) THEN AddLogFrom(cells, i + 1, lg, calls, m)
        ELSE IF Unwrap(got) = Fault
            THEN {[logs |-> lg, calls |-> Append(calls, <<i, Fault>>)]}
        ELSE AddLogFrom(cells, i + 1, ObserverNotify(lg, Unwrap(got), m),
                        Append(calls, <<i, Unwrap(got)>>), m)
        : got \in ScGetOutcomes(cells, i)}

AddLog(m) ==
    /\ notified < MaxNotify
    /\ notified' = notified + 1
    /\ \E out \in AddLogFrom(sc, 1, logs, <<>>, m) :
        /\ logs' = out.logs
        /\ last' = [op |-> "add_log", m |-> m, calls |-> out.calls]
    /\ UNCHANGED <<sc, lockers, alive, wstate, wlocker>>

\* A find without its test: the first cell, Empty or not.
FindFirstCell(cells, i) == Some(1)

\* A find that falls back on the first cell when none is Empty.
RECURSIVE FindEmptyOrFirst(_, _)
FindEmptyOrFirst(cells, i) ==
    IF i > NCells THEN Some(1)
    ELSE IF ScIsNone(cells, i) THEN Some(i)
    ELSE FindEmptyOrFirst(cells, i + 1)

\* rfind instead of find: the Empty cell with the highest index.
RECURSIVE FindEmptyFromBack(_, _)
FindEmptyFromBack(cells, i) ==
    IF i > NCells THEN None
    ELSE IF OptionIsSome(FindEmptyFromBack(cells, i + 1))
        THEN FindEmptyFromBack(cells, i + 1)
    ELSE IF ScIsNone(cells, i) THEN Some(i)
    ELSE None

\* self.observers.iter().find(|observer| observer.is_none())
RECURSIVE FindEmptyFrom(_, _)
FindEmptyFrom(cells, i) ==
    IF i > NCells THEN None
    ELSE IF ScIsNone(cells, i) THEN Some(i)
    ELSE FindEmptyFrom(cells, i + 1)

\* A register_observer that locks before it gives up: with no Empty cell it
\* locks the Locker onto the last cell and then returns None.
RegisterObserverLocksOnFailure(r, v) ==
    /\ r \in BagToSet(lockers)
    /\ CanLock(r)
    /\ CanBorrow(v)
    /\ LET found == FindEmptyFrom(sc, 1)
           target == IF OptionIsNone(found) THEN NCells ELSE Unwrap(found)
       IN
        /\ sc' = LockCells(sc, r, v, target)
        /\ lockers' = (lockers (-) SetToBag({r}))
                          (+) SetToBag({LockLocker(r, v, target)})
        /\ last' = IF OptionIsNone(found)
                   THEN [op |-> "register", v |-> v, ret |-> None]
                   ELSE [op |-> "register", v |-> v, ret |-> Some("unit"),
                         c |-> target]
    /\ UNCHANGED <<alive, wstate, wlocker, logs, notified>>

\* Visitable::register_observer(observer, locker). The `?` returns None when
\* find does; `&'observer` borrows both arguments for the Locker's lifetime
\* whatever is returned.
RegisterObserver(r, v) ==
    /\ r \in BagToSet(lockers)
    /\ CanLock(r)
    /\ CanBorrow(v)
    /\ LET found == FindEmptyFrom(sc, 1)
           without == lockers (-) SetToBag({r})
       IN
        IF OptionIsNone(found)
        THEN /\ lockers' = without (+) SetToBag({[r EXCEPT !.val = Some(v)]})
             /\ last' = [op |-> "register", v |-> v, ret |-> None]
             /\ UNCHANGED sc
        ELSE /\ sc' = LockCells(sc, r, v, Unwrap(found))
             /\ lockers' = without (+) SetToBag({LockLocker(r, v, Unwrap(found))})
             /\ last' = [op |-> "register", v |-> v, ret |-> Some("unit"),
                         c |-> Unwrap(found)]
    /\ UNCHANGED <<alive, wstate, wlocker, logs, notified>>

\* ---------------------------------------------------------------- systems
\* The history variable is either left alone or follows the cells.
Same == UNCHANGED cleared
Track ==
    cleared' = [c \in Cells |->
                    IF sc[c] # None /\ sc'[c] = None THEN sc[c] ELSE cleared[c]]

\* The crate: cells, Lockers, values and Wrappers used in any order.
Next ==
    \/ NewLocker(NLockers) /\ Same
    \/ NewValue /\ Same
    \/ \E r \in BagToSet(lockers), v \in Values, c \in Cells : Lock(r, v, c) /\ Same
    \/ \E r \in BagToSet(lockers) : DropLocker(r) /\ Same
    \/ \E v \in 1..NValues : DropValue(v) /\ Same
    \/ \E c \in Cells, f \in Fns : Map(c, f) /\ Same
    \/ \E w \in Wrappers : WrapperNew(w) /\ Same
    \/ \E w \in Wrappers, c \in Cells : WrapperLock(w, c) /\ Same
    \/ \E w \in Wrappers : WrapperDropField(w) /\ Same

Spec == Init /\ [][Next]_vars

\* Cells, plain Lockers and values as tests::it_works uses them, in any
\* order, with the history of the cells recorded.
NextCycle ==
    \/ NewLocker(NLockers) /\ Track
    \/ NewValue /\ Track
    \/ \E r \in BagToSet(lockers), v \in Values, c \in Cells : Lock(r, v, c) /\ Track
    \/ \E r \in BagToSet(lockers) : DropLocker(r) /\ Track
    \/ \E v \in 1..NValues : DropValue(v) /\ Track

SpecCycle == Init /\ [][NextCycle]_vars

\* Cells, plain Lockers and values, with scopes left at their end or by the
\* unwinding of a failure.
NextUnwind ==
    \/ NewLocker(NLockers) /\ Same
    \/ NewValue /\ Same
    \/ \E r \in BagToSet(lockers), v \in Values, c \in Cells : Lock(r, v, c) /\ Same
    \/ \E r \in BagToSet(lockers) : DropLocker(r) /\ Same
    \/ \E v \in 1..NValues : DropValue(v) /\ Same
    \/ Unwind /\ Same

SpecUnwind == Init /\ [][NextUnwind]_vars

\* The observer example, registration side: the cells are the registry's and
\* are bound only by register_observer; there are Lockers enough to fill the
\* registry and ask once more.
NextReg ==
    \/ NewLocker(NCells + 1) /\ Same
    \/ NewValue /\ Same
    \/ \E r \in BagToSet(lockers), v \in 1..NValues : RegisterObserver(r, v) /\ Same
    \/ \E r \in BagToSet(lockers) : DropLocker(r) /\ Same
    \/ \E v \in 1..NValues : DropValue(v) /\ Same

SpecReg == Init /\ [][NextReg]_vars

\* The observer example with its notifications.
NextNotify ==
    \/ NewLocker(NLockers) /\ Same
    \/ NewValue /\ Same
    \/ \E r \in BagToSet(lockers), v \in 1..NValues : RegisterObserver(r, v) /\ Same
    \/ \E r \in BagToSet(lockers) : DropLocker(r) /\ Same
    \/ \E v \in 1..NValues : DropValue(v) /\ Same
    \/ \E m \in Msgs : AddLog(m) /\ Same

SpecNotify == Init /\ [][NextNotify]_vars

\* The observer example with one message and with its cells read from
\* outside (map, is_some, is_none).
NextFrame ==
    \/ NewLocker(NLockers) /\ Same
    \/ NewValue /\ Same
    \/ \E r \in BagToSet(lockers), v \in 1..NValues : RegisterObserver(r, v) /\ Same
    \/ \E r \in BagToSet(lockers) : DropLocker(r) /\ Same
    \/ \E v \in 1..NValues : DropValue(v) /\ Same
    \/ AddLog(1) /\ Same
    \/ \E c \in Cells, f \in Fns : Map(c, f) /\ Same

SpecFrame == Init /\ [][NextFrame]_vars

\* The observer example with Lockers enough to fill the registry and ask once
\* more, notified with one message.
NextFull ==
    \/ NewLocker(NCells + 1) /\ Same
    \/ NewValue /\ Same
    \/ \E r \in BagToSet(lockers), v \in 1..NValues : RegisterObserver(r, v) /\ Same
    \/ \E r \in BagToSet(lockers) : DropLocker(r) /\ Same
    \/ \E v \in 1..NValues : DropValue(v) /\ Same
    \/ AddLog(1) /\ Same

SpecFull == Init /\ [][NextFull]_vars

\* ---------------------------------------------------------------- steps
\* What a step did, read off the two states.
\* A Locker locked onto cell c was dropped in this step.
DroppedOn(c) ==
    \/ \E r \in BagToSet(lockers) :
        r.sc = Some(c) /\ CopiesIn(r, lockers') < CopiesIn(r, lockers)
    \/ \E w \in Wrappers :
        /\ wlocker[w].sc = Some(c)
        /\ WrapperLockerLive(w) /\ ~WrapperLockerLive(w)'

\* A Locker was locked onto cell c in this step.
LockedOn(c) ==
    \/ \E r \in BagToSet(lockers') :
        r.sc = Some(c) /\ CopiesIn(r, lockers') > CopiesIn(r, lockers)
    \/ \E w \in Wrappers : wlocker[w].sc = None /\ wlocker'[w].sc = Some(c)

\* The guards in bag b: the Lockers that are locked onto a cell.
Locked(b) == [r \in {x \in DOMAIN b : x.sc # None} |-> b[r]]

\* How many live guards were handed out for observer v.
RegCount(v) == BagCardinality([r \in {x \in DOMAIN Locked(lockers) : x.val = Some(v)} |-> lockers[r]])

\* How many live guards govern cell c: the Lockers whose Dropper holds c.
GuardsOn(c) ==
    BagCardinality([r \in {x \in DOMAIN lockers : x.sc = Some(c)} |-> lockers[r]])
    + Cardinality({w \in Wrappers : WrapperLockerLive(w) /\ wlocker[w].sc = Some(c)})

\* The step is a call of register_observer, of add_log.
IsRegister == last'.op = "register" /\ lockers' # lockers
IsAddLog == notified' # notified

\* The step is a call of map (with is_some and is_none).
IsMap == last'.op = "map"

\* ---------------------------------------------------------------- claims
\* C1: from the return of Locker::lock(v, sc) until that Locker is dropped,
\* sc is Bound and sc.map(identity) returns Some(v), whatever else happens
\* (other Lockers locking the same sc, and their drops, included).
C1_LockedCellResolves ==
    \A r \in LiveLockers :
        OptionIsSome(r.sc) =>
            /\ sc[Unwrap(r.sc)] # None
            /\ \A out \in ScMapOutcomes(sc, Unwrap(r.sc), "identity") :
                out.ret = r.val

\* C2: the drop of a Locker locked onto sc leaves sc Empty (is_some false,
\* is_none true, map returns None for every f) whatever sc was bound to, and
\* an Empty sc becomes Bound only by a lock call that targets it.
C2_DropClears ==
    [][\A c \in Cells :
        /\ DroppedOn(c) =>
            /\ sc'[c] = None
            /\ ScIsNone(sc', c) /\ ~ScIsSome(sc', c)
            /\ \A f \in Fns : \A out \in ScMapOutcomes(sc', c, f) : out.ret = None
        /\ (sc[c] = None /\ sc'[c] # None) => LockedOn(c)]_vars

\* A Locker has just been dropped and emptied a cell that another live Locker,
\* locked with another value, is locked onto as well.
C2_Witness ==
    /\ last.op = "drop_locker"
    /\ last.c # None
    /\ sc[Unwrap(last.c)] = None
    /\ \E r \in LiveLockers : r.sc = last.c /\ r.val # last.v

\* C3: a Bound cell refers to a value that is alive and that a live Locker
\* locked onto this cell borrowed; Sc::map never runs its closure on a value
\* whose scope has ended.
C3_BoundRefersToLive ==
    /\ \A c \in Cells :
        sc[c] # None =>
            /\ alive[sc[c][1]]
            /\ \E r \in LiveLockers : r.sc = Some(c) /\ r.val = sc[c]
    /\ last.op = "map" =>
        \A i \in DOMAIN last.calls :
            last.calls[i] # Fault /\ alive[last.calls[i]]

\* A locked Wrapper is half dropped (its Locker gone, its data still there)
\* while two plain Lockers are locked onto one Bound cell.
C3_Witness ==
    /\ \E w \in Wrappers :
        /\ wstate[w] = 2 /\ alive[WData(w)]
        /\ last.op = "wrapper_drop" /\ last.w = w /\ last.c # None
    /\ \E c \in Cells :
        /\ sc[c] # None
        /\ \E r1, r2 \in BagToSet(lockers) :
            /\ r1.sc = Some(c) /\ r2.sc = Some(c)
            /\ r1 # r2 \/ CopiesIn(r1, lockers) >= 2

\* C4: Sc::map(f) has one outcome: Some(f(v)) after one run of f on v when the
\* cell is Bound to v, None after no run of f when it is Empty; is_some is
\* true exactly when map returns Some, and is_none is its negation.
C4_MapTotal ==
    /\ \A c \in Cells, f \in Fns :
        /\ Cardinality(ScMapOutcomes(sc, c, f)) = 1
        /\ \A out \in ScMapOutcomes(sc, c, f) :
            /\ ScIsSome(sc, c) <=> out.ret # None
            /\ ScIsNone(sc, c) <=> ~ScIsSome(sc, c)
    /\ last.op = "map" =>
        IF sc[last.c] # None
        THEN /\ last.ret = <<Apply(last.f, sc[last.c][1])>>
             /\ last.calls = <<sc[last.c][1]>>
             /\ last.is_some /\ ~last.is_none
        ELSE /\ last.ret = None
             /\ last.calls = <<>>
             /\ ~last.is_some /\ last.is_none

\* map(|x| x.clone() + "bar") has just returned Some on a Bound cell.
C4_Witness ==
    /\ last.op = "map"
    /\ last.f = "append_bar"
    /\ sc[last.c] # None
    /\ last.ret = Some(<<sc[last.c][1], "bar">>)

\* C5: add_log(msg) runs the capability of every cell that is Bound at that
\* time exactly once with msg, in ascending index order, and runs nothing for
\* an Empty cell; with no Bound cell it runs nothing.
C5_NotifyBoundInOrder ==
    [][IsAddLog =>
        LET calls == last'.calls
            bound == {c \in Cells : sc[c] # None}
        IN
        /\ Len(calls) = Cardinality(bound)
        /\ \A c \in bound : \E i \in DOMAIN calls : calls[i] = <<c, sc[c][1]>>
        /\ \A i, j \in DOMAIN calls : i < j => calls[i][1] < calls[j][1]
        /\ \A v \in Values :
            logs'[v] = logs[v] \o
                [k \in 1..Cardinality({c \in bound : sc[c][1] = v}) |-> last'.m]
        /\ bound = {} => calls = <<>> /\ logs' = logs]_vars

\* add_log has just skipped the Empty first cell and notified the second.
C5_Witness ==
    /\ last.op = "add_log"
    /\ sc[1] = None /\ sc[2] # None
    /\ last.calls = <<<<2, sc[2][1]>>>>
    /\ logs[sc[2][1]] = <<last.m>>

\* C6: register_observer called while NCells guards are alive returns None;
\* called when one of them has been dropped, it succeeds and binds the very
\* slot that guard held.
C6_FullThenReuse ==
    [][IsRegister =>
        /\ BagCardinality(Locked(lockers)) = NCells =>
            last'.ret = None /\ sc' = sc
        /\ BagCardinality(Locked(lockers)) = NCells - 1 =>
            \A i \in Cells :
                (\/ last.op = "drop_locker" /\ last.c = Some(i)
                 \/ \A r \in DOMAIN Locked(lockers) : r.sc # Some(i)) =>
                    /\ last'.ret # None
                    /\ last'.c = i
                    /\ sc' = [sc EXCEPT ![i] = Some(last'.v)]
                    /\ LockedOn(i)]_vars

\* The registry is full again: a register_observer call failed while it was
\* full, the guard of the middle slot was dropped, and the call just made got
\* that slot.
C6_Witness ==
    /\ last.op = "register" /\ last.ret # None /\ last.c = 2
    /\ \A c \in Cells : sc[c] # None
    /\ BagCardinality(Locked(lockers)) = NCells
    /\ \E r \in BagToSet(lockers) : r.sc = None /\ r.val # None

\* C7: register_observer binds the Empty cell with the lowest index to the
\* observer given and returns Some; it returns None, binding nothing, exactly
\* when no cell is Empty.
C7_RegisterLowestEmpty ==
    [][IsRegister =>
        LET empty == {c \in Cells : sc[c] = None} IN
        IF empty = {}
        THEN /\ last'.ret = None
             /\ sc' = sc
             /\ \A c \in Cells : ~LockedOn(c)
        ELSE LET i == CHOOSE c \in empty : \A d \in empty : c <= d IN
             /\ last'.ret # None
             /\ last'.c = i
             /\ sc' = [sc EXCEPT ![i] = Some(last'.v)]
             /\ LockedOn(i)]_vars

\* register_observer has just bound the first cell while the second was Bound
\* and the third Empty.
C7_Witness ==
    /\ last.op = "register" /\ last.ret # None /\ last.c = 1
    /\ sc[1] = Some(last.v) /\ sc[2] # None /\ sc[3] = None

\* C8: an observer receives a message exactly when it holds a guard from a
\* successful register_observer at the time of add_log: once per such guard,
\* appended in notification order; no other step adds to its logs.
C8_ReceivesWhileRegistered ==
    [][\A v \in Values :
        IF IsAddLog
        THEN logs'[v] = logs[v] \o [k \in 1..RegCount(v) |-> last'.m]
        ELSE \/ logs'[v] = logs[v]
             \/ alive[v] /\ ~alive'[v] /\ logs'[v] = <<>>]_vars

\* The scenario: A and B registered (cells 1, 2), message 1 reaches A then B;
\* B's guard dropped, message 2 reaches A only; C registered into cell 2,
\* message 3 reaches A then C.
C8_Witness ==
    /\ logs[1] = <<1, 2, 3>> /\ logs[2] = <<1>> /\ logs[3] = <<3>>
    /\ sc = <<Some(1), Some(3), None>>
    /\ last.op = "add_log" /\ last.m = 3
    /\ last.calls = <<<<1, 1>>, <<2, 3>>>>
    /\ RegCount(1) = 1 /\ RegCount(2) = 0 /\ RegCount(3) = 1

\* C9: from the return of Wrapper::lock(w, sc) until the Wrapper w is dropped,
\* sc is Bound and sc.map resolves to w's wrapped value.
C9_WrapperCellResolves ==
    \A w \in Wrappers :
        (wstate[w] = 1 /\ wlocker[w].sc # None) =>
            /\ sc[wlocker[w].sc[1]] # None
            /\ \A out \in ScMapOutcomes(sc, wlocker[w].sc[1], "identity") :
                out.ret = Some(WData(w))

\* C10: a lock onto a cell that is Empty, whether it is fresh or went through
\* lock(v1) and the drop of that Locker any number of times, leaves the cell
\* Bound to the value v2 now given (never to the v1 it was cleared of) and
\* changes no other cell; the drop of that Locker makes the cell Empty again.
C10_NoResidue ==
    [][\A c \in Cells :
        /\ (LockedOn(c) /\ sc[c] = None) =>
            /\ sc' = [sc EXCEPT ![c] = Some(last'.v)]
            /\ ScIsSome(sc', c)
            /\ \A out \in ScMapOutcomes(sc', c, "identity") :
                /\ out.ret = Some(last'.v)
                /\ Some(last'.v) # cleared[c] => out.ret # cleared[c]
        /\ DroppedOn(c) => sc'[c] = None]_vars

\* A cell that was cleared of one value has just been locked with another.
C10_Witness ==
    /\ last.op = "lock"
    /\ cleared[last.c] # None
    /\ cleared[last.c] # Some(last.v)
    /\ sc[last.c] = Some(last.v)

\* C11: a Bound cell is governed by exactly one live guard: never by none,
\* never by two or more.
C11_BoundHasOneGuard ==
    \A c \in Cells : sc[c] # None => GuardsOn(c) = 1

\* C12: the double-binding hazard: when two Lockers govern one cell and one of
\* them is dropped while the other stays alive, the cell reports Empty
\* (is_none true, map returns None) although the other has not been dropped.
C12_OlderDropClears ==
    [][\A c \in Cells :
        (DroppedOn(c) /\ GuardsOn(c) >= 2 /\ sc[c] # None) =>
            /\ GuardsOn(c)' >= 1
            /\ sc'[c] = None
            /\ ScIsNone(sc', c) /\ ~ScIsSome(sc', c)
            /\ \A f \in Fns : \A out \in ScMapOutcomes(sc', c, f) :
                out.ret = None /\ out.calls = <<>>]_vars

\* A was locked first and B second (the cell referred to B's value when it
\* was cleared); A has just been dropped, B is alive, the cell is Empty.
C12_Witness ==
    /\ last.op = "drop_locker"
    /\ last.c # None
    /\ sc[Unwrap(last.c)] = None
    /\ cleared[Unwrap(last.c)] # None
    /\ cleared[Unwrap(last.c)] # last.v
    /\ \E r \in BagToSet(lockers) :
        r.sc = last.c /\ r.val = cleared[Unwrap(last.c)]

\* C13: Locker::lock overwrites and never rejects: after lock(v, sc) the cell
\* is Bound and resolves to v, whether it was Empty or Bound to another value
\* by another live Locker; no other cell changes, the Lockers that governed
\* the cell before still govern it, and the later drop of any of them still
\* clears it.
C13_LockOverwrites ==
    [][\A c \in Cells :
        /\ LockedOn(c) =>
            /\ sc' = [sc EXCEPT ![c] = Some(last'.v)]
            /\ ScIsSome(sc', c)
            /\ \A out \in ScMapOutcomes(sc', c, "identity") :
                out.ret = Some(last'.v)
            /\ GuardsOn(c)' = GuardsOn(c) + 1
            /\ \A r \in LiveLockers : r.sc = Some(c) => r \in LiveLockers'
        /\ DroppedOn(c) => sc'[c] = None]_vars

\* B has just locked its value onto a cell that the live Locker A had bound
\* to another value: the cell resolves to B's value and has two guards.
C13_Witness ==
    /\ last.op = "lock"
    /\ sc[last.c] = Some(last.v)
    /\ GuardsOn(last.c) = 2
    /\ \E r \in BagToSet(lockers) : r.sc = Some(last.c) /\ r.val # Some(last.v)

\* C14: a cell goes from Bound to Empty only by the drop of a Locker locked
\* onto it; is_some, is_none, map, add_log and register_observer neither empty
\* a Bound cell nor change what it refers to.
C14_OnlyDropClears ==
    [][\A c \in Cells :
        /\ (sc[c] # None /\ sc'[c] = None) => DroppedOn(c)
        /\ (IsMap \/ IsAddLog \/ IsRegister) =>
            (sc[c] # None => sc'[c] = sc[c])
        /\ (IsMap \/ IsAddLog) => sc' = sc /\ lockers' = lockers]_vars

\* A Bound cell has been notified and has just been read: map returns its
\* observer, whose logs hold the message.
C14_Witness ==
    /\ last.op = "map"
    /\ last.f = "identity"
    /\ last.ret # None
    /\ sc[last.c] = last.ret
    /\ logs[Unwrap(last.ret)] # <<>>
    /\ \E r \in BagToSet(lockers) : r.sc = Some(last.c)

\* C15: the clearing of a locked Locker runs at its destruction, once, on
\* every way out of its scope (end of scope or unwinding): a Locker leaves
\* only by one of the two, the cell it was locked onto is Empty right after,
\* the Locker is no longer among the cell's guards, and a Bound cell whose
\* Lockers all stay is not cleared.
C15_DropOnEveryExit ==
    [][\A c \in Cells :
        /\ DroppedOn(c) =>
            /\ last'.op \in {"drop_locker", "unwind"}
            /\ sc'[c] = None
            /\ ScIsNone(sc', c) /\ ~ScIsSome(sc', c)
            /\ GuardsOn(c)' < GuardsOn(c)
        /\ last'.op = "unwind" =>
            /\ GuardsOn(c)' = 0
            /\ GuardsOn(c) > 0 => DroppedOn(c)
        /\ (sc[c] # None /\ ~DroppedOn(c)) => sc'[c] # None]_vars

\* A failure has just unwound two Lockers locked onto two Bound cells, and
\* every cell is Empty.
C15_Witness ==
    /\ last.op = "unwind"
    /\ last.n = 2
    /\ Cardinality(last.bound) = 2
    /\ \A c \in Cells : sc[c] = None
    /\ lockers = EmptyBag

\* C16: a freshly constructed cell is Empty (is_none true, is_some false, map
\* returns None without running f), and a freshly constructed registry of
\* capacity N holds exactly N cells, all Empty.
C16_FreshIsEmpty ==
    /\ \A n \in 0..NCells :
        /\ Len(VisitableNew(n)) = n
        /\ \A c \in 1..n :
            /\ ScIsNone(VisitableNew(n), c) /\ ~ScIsSome(VisitableNew(n), c)
            /\ \A f \in Fns : \A out \in ScMapOutcomes(VisitableNew(n), c, f) :
                out.ret = None /\ out.calls = <<>>
    /\ last.op = "init" =>
        /\ DOMAIN sc = 1..NCells
        /\ \A c \in Cells :
            /\ ScIsNone(sc, c) /\ ~ScIsSome(sc, c)
            /\ \A f \in Fns : \A out \in ScMapOutcomes(sc, c, f) :
                out.ret = None /\ out.calls = <<>>
            /\ GuardsOn(c) = 0

\* The registry has just been constructed: nothing has acted on its cells.
C16_Witness ==
    /\ last.op = "init"
    /\ Len(sc) = NCells
    /\ lockers = EmptyBag
    /\ \A v \in Values : ~alive[v]

\* C17: a register_observer call that returns None changes no cell and leaves
\* the Locker it was given unlocked; the drop of a Locker that was never
\* locked (that one or a fresh one) changes no cell.
C17_FailedRegisterChangesNothing ==
    [][/\ (IsRegister /\ last'.ret = None) =>
            /\ sc' = sc
            /\ Locked(lockers') = Locked(lockers)
            /\ BagCardinality(lockers') = BagCardinality(lockers)
            /\ \A c \in Cells : ~LockedOn(c) /\ GuardsOn(c)' = GuardsOn(c)
            /\ UNCHANGED <<alive, logs>>
       /\ (last'.op = "drop_locker" /\ last'.c = None
           /\ BagCardinality(lockers') < BagCardinality(lockers)) =>
            /\ sc' = sc
            /\ Locked(lockers') = Locked(lockers)]_vars

\* The Locker given to a register_observer call that the full registry turned
\* away has just been dropped, and the registry is still full.
C17_Witness ==
    /\ last.op = "drop_locker"
    /\ last.c = None
    /\ last.v # None
    /\ \A c \in Cells : sc[c] # None /\ GuardsOn(c) = 1

\* C18: in a registry bound only through register_observer, after any
\* register_observer, drop and add_log steps: there are still NCells cells, no
\* cell has two live guards, every Bound cell has exactly one live guard,
\* which holds the observer the cell refers to, every live guard's cell is
\* Bound, and the Bound cells are as many as the live guards, at most NCells.
C18_RegistryOneGuardPerCell ==
    /\ DOMAIN sc = 1..NCells
    /\ \A c \in Cells :
        /\ GuardsOn(c) <= 1
        /\ sc[c] # None <=> GuardsOn(c) = 1
    /\ \A r \in DOMAIN Locked(lockers) :
        /\ sc[Unwrap(r.sc)] = r.val
        /\ lockers[r] = 1
    /\ Cardinality({c \in Cells : sc[c] # None}) = BagCardinality(Locked(lockers))
    /\ BagCardinality(Locked(lockers)) <= NCells

\* The full registry has just been notified, every cell in turn, while a
\* Locker that a register_observer call could not lock is still alive.
C18_Witness ==
    /\ last.op = "add_log"
    /\ Len(last.calls) = NCells
    /\ BagCardinality(Locked(lockers)) = NCells
    /\ BagCardinality(lockers) = NCells + 1
    /\ \E r \in BagToSet(lockers) : r.sc = None /\ r.val # None

\* C19: registry operations touch one slot: a successful register_observer
\* changes exactly one cell, from Empty to Bound; the drop of a guard changes
\* exactly the cell it governs, to Empty; every other cell keeps its state and
\* referent and every other guard stays on its cell.
C19_OneSlotTouched ==
    [][/\ (IsRegister /\ last'.ret # None) =>
            /\ sc[last'.c] = None
            /\ sc' = [sc EXCEPT ![last'.c] = Some(last'.v)]
            /\ \A c \in Cells : c # last'.c => GuardsOn(c)' = GuardsOn(c)
            /\ \A r \in DOMAIN Locked(lockers) :
                CopiesIn(r, lockers') = CopiesIn(r, lockers)
       /\ \A c \in Cells :
            DroppedOn(c) =>
                /\ sc[c] # None
                /\ sc' = [sc EXCEPT ![c] = None]
                /\ \A d \in Cells : d # c => GuardsOn(d)' = GuardsOn(d)
                /\ \A r \in DOMAIN Locked(lockers) :
                    r.sc # Some(c) => CopiesIn(r, lockers') = CopiesIn(r, lockers)]_vars

\* The guard of the middle slot has just been dropped: the slot is Empty and
\* the subscribers on either side are still registered in theirs.
C19_Witness ==
    /\ last.op = "drop_locker"
    /\ last.c = Some(2)
    /\ sc[2] = None
    /\ sc[1] # None /\ sc[3] # None
    /\ GuardsOn(1) = 1 /\ GuardsOn(2) = 0 /\ GuardsOn(3) = 1

====
